---- MODULE Spec2Model ----
(***************************************************************************)
(* The core bitcoin-peg state machine of chain/src/state_machine.rs: the   *)
(* dispatcher `run` and its handlers, over the typed State view of the     *)
(* store, the SPV header cache kept in the same store, and the validator   *)
(* map owned by the consensus engine.                                      *)
(*                                                                         *)
(* Byte strings (addresses, public keys, hashes, txids) are named values;  *)
(* BytesLen gives the length the code tests.  u64 is modelled at WordBits  *)
(* bits (TLC's integers are 32-bit): every u64 operation of the code is    *)
(* taken modulo U64Mod, and an overflowing operation panics when the build *)
(* has overflow checks (debug profile) and wraps when it has not (release  *)
(* profile).  A second replica (peer) receives the same actions in the     *)
(* two-replica specification and is idle in the others.                    *)
(***************************************************************************)
EXTENDS Integers, Sequences, FiniteSets, TLC

VARIABLES
    accounts,                 \* State.accounts: Map<Address, Account>
    redeemed_work_hashes,     \* State.redeemed_work_hashes: Set<[u8; 32]>
    signatory_sets,           \* State.signatory_sets: Deque<SignatorySetSnapshot>
    processed_deposit_txids,  \* State.processed_deposit_txids: Set<[u8; 32]>
    pending_withdrawals,      \* State.pending_withdrawals: Deque<Withdrawal>
    utxos,                    \* State.utxos: Deque<Utxo>
    header_cache,             \* the SPV header cache's entries in the store, by height
    validators,               \* the consensus engine's BTreeMap<Vec<u8>, u64>
    overflow_checks,          \* the build profile: TRUE panics on overflow, FALSE wraps
    last,                     \* the action `run` was last called with, and its result
    peer                      \* a second replica: its store, validator map, build, last result

vars == <<accounts, redeemed_work_hashes, signatory_sets, processed_deposit_txids,
          pending_withdrawals, utxos, header_cache, validators, overflow_checks, last,
          peer>>

----------------------------------------------------------------------------
(* Bounds of the model *)

\* u64 is modelled as a WordBits-bit unsigned integer
WordBits == 29
\* signatory_sets grows to at most this many snapshots
MaxSnapshots == 3
\* an account signs at most this many transactions
MaxNonce == 2
\* pending_withdrawals grows to at most this many entries
MaxWithdrawals == 2

----------------------------------------------------------------------------
(* Program constants *)

MIN_WORK == 1048576
SIGNATORY_CHANGE_INTERVAL == 604800
MIN_FEE == 1000
ADDRESS_LEN == 33

U64Mod == 2 ^ WordBits
U64Max == U64Mod - 1

----------------------------------------------------------------------------
(* Byte strings *)

\* 33-byte account addresses, and a byte string that is too short
Addr33 == {"A", "B"}
ShortBytes == "X"
\* validator keys: two compressed secp256k1 points, and 33 bytes that are no point
ValidKeys == {"K0", "K1"}
BadKey == "KBad"

BytesLen(b) == IF b = ShortBytes THEN 20 ELSE 33

\* bitcoin::PublicKey::from_slice succeeds
PublicKeyParses(k) == k \in ValidKeys

----------------------------------------------------------------------------
(* Maps (orga Map, BTreeMap) as functions on the set of present keys *)

EmptyMap == [k \in {} |-> 0]

MapInsert(m, k, v) == [x \in (DOMAIN m) \cup {k} |-> IF x = k THEN v ELSE m[x]]

DefaultAccount == [balance |-> 0, nonce |-> 0]

\* Map::get(k).unwrap_or_default()
GetOrDefault(m, k) == IF k \in DOMAIN m THEN m[k] ELSE DefaultAccount

----------------------------------------------------------------------------
(* The State view of the store, as one record, and a handler's outcome.    *)
(* The record carries the profile of the build that operates the store,   *)
(* which decides what an overflowing u64 operation of a handler does.     *)

St == [accounts |-> accounts,
       redeemed_work_hashes |-> redeemed_work_hashes,
       signatory_sets |-> signatory_sets,
       processed_deposit_txids |-> processed_deposit_txids,
       pending_withdrawals |-> pending_withdrawals,
       utxos |-> utxos,
       header_cache |-> header_cache,
       overflow_checks |-> overflow_checks]

\* Ok(())
Ok(s, v) == [res |-> "Ok", st |-> s, validators |-> v]
\* bail!(msg), or an error propagated by `?`: the writes made so far stay in s
Err(s, v, msg) == [res |-> msg, st |-> s, validators |-> v]
\* an arithmetic overflow in a build with overflow checks
Panic(s, v) == [res |-> "panic", st |-> s, validators |-> v]

----------------------------------------------------------------------------
(* BeginBlock *)

\* a derivation that skips the keys that do not parse
signatories_from_valid_keys(v) ==
    [ok |-> TRUE,
     signatories |-> {[pubkey |-> k, voting_power |-> v[k]] :
                         k \in {x \in DOMAIN v : PublicKeyParses(x)}}]

\* signatories_from_validators: every key must parse; the set of Signatory
\* values, one per validator
signatories_from_validators(v) ==
    IF \E k \in DOMAIN v : ~PublicKeyParses(k)
    THEN [ok |-> FALSE, signatories |-> {}]
    ELSE [ok |-> TRUE,
          signatories |-> {[pubkey |-> k, voting_power |-> v[k]] : k \in DOMAIN v}]

\* a push that resets the voting power of the validators it has read
PushSnapshotAndReset(s, v, time) ==
    LET sigs == signatories_from_validators(v)
    IN  IF ~sigs.ok
        THEN Err(s, v, "Invalid public key")
        ELSE Ok([s EXCEPT !.signatory_sets =
                    Append(@, [time |-> time, signatories |-> sigs.signatories])],
                [k \in DOMAIN v |-> 0])

\* a rotation that keeps only the new snapshot
ReplaceSnapshots(s, v, time) ==
    LET sigs == signatories_from_validators(v)
    IN  IF ~sigs.ok
        THEN Err(s, v, "Invalid public key")
        ELSE Ok([s EXCEPT !.signatory_sets =
                    <<[time |-> time, signatories |-> sigs.signatories]>>], v)

\* the push of a new snapshot taken at `time`
PushSnapshot(s, v, time) ==
    LET sigs == signatories_from_validators(v)
    IN  IF ~sigs.ok
        THEN Err(s, v, "Invalid public key")
        ELSE Ok([s EXCEPT !.signatory_sets =
                    Append(@, [time |-> time, signatories |-> sigs.signatories])], v)

\* elapsed >= SIGNATORY_CHANGE_INTERVAL
RotationDue(elapsed) == elapsed >= SIGNATORY_CHANGE_INTERVAL

handle_begin_block(s, v, time) ==
    IF Len(s.signatory_sets) = 0
    THEN PushSnapshot(s, v, time)
    ELSE LET signatories == s.signatory_sets[Len(s.signatory_sets)]
             now == time
         IN  IF now < signatories.time /\ s.overflow_checks
             THEN Panic(s, v)
             ELSE LET elapsed == (now - signatories.time + U64Mod) % U64Mod
                  IN  IF RotationDue(elapsed)
                      THEN PushSnapshot(s, v, now)
                      ELSE Ok(s, v)

----------------------------------------------------------------------------
(* WorkProof *)

\* SHA-256(public_key || nonce.to_be_bytes()): the 8-byte suffix makes the
\* preimage determine the pair, so distinct pairs have distinct hashes
Sha256(public_key, nonce) == <<public_key, nonce>>

\* nomic_work::work on the hashes of the model's work proofs
work(hash) ==
    CASE hash[2] = 1 -> MIN_WORK
      [] hash[2] = 2 -> MIN_WORK - 1
      [] hash[2] = 3 -> MIN_WORK + 7
      [] hash[2] = 4 -> U64Max
      [] OTHER       -> 0

\* a replay check that never finds the hash
HashRedeemedNever(s, hash) == FALSE

\* state.redeemed_work_hashes.contains(hash)
HashRedeemed(s, hash) == hash \in s.redeemed_work_hashes

handle_work_proof_tx(s, v, tx) ==
    LET hash == Sha256(tx.public_key, tx.nonce)
        work_proof_value == work(hash)
    IN  IF work_proof_value < MIN_WORK
        THEN Err(s, v, "Proof has less than minimum work value")
        ELSE IF HashRedeemed(s, hash)
        THEN Err(s, v, "Work proof has already been redeemed")
        ELSE LET current_voting_power ==
                     IF tx.public_key \in DOMAIN v THEN v[tx.public_key] ELSE 0
                 sum == current_voting_power + work_proof_value
             IN  IF sum >= U64Mod /\ s.overflow_checks
                 THEN Panic(s, v)
                 ELSE Ok([s EXCEPT !.redeemed_work_hashes = @ \cup {hash}],
                         MapInsert(v, tx.public_key, sum % U64Mod))

----------------------------------------------------------------------------
(* Header: the SPV header cache *)

\* HeaderCache::get_header_for_height: the cache holds one header per height,
\* from the checkpoint's height 0 upwards
get_header_for_height(s, height) ==
    IF height + 1 \in DOMAIN s.header_cache
    THEN {s.header_cache[height + 1]}
    ELSE {}

\* HeaderCache::add_header: the header is validated for proof of work and for
\* linkage to the tip, and written to the store at the next height
add_header(s, header) ==
    LET tip == s.header_cache[Len(s.header_cache)]
    IN  IF header.pow_ok /\ header.prev = tip.id
        THEN [ok |-> TRUE, st |-> [s EXCEPT !.header_cache = Append(@, header)]]
        ELSE [ok |-> FALSE, st |-> s]

\* the loop of handle_header_tx from the i-th header on: `?` returns at the
\* first header the cache rejects, with the store as the loop has left it
RECURSIVE AddHeaders(_, _, _, _)
AddHeaders(s, v, block_headers, i) ==
    IF i > Len(block_headers)
    THEN Ok(s, v)
    ELSE LET r == add_header(s, block_headers[i])
         IN  IF ~r.ok
             THEN Err(r.st, v, "Header rejected by the header cache")
             ELSE AddHeaders(r.st, v, block_headers, i + 1)

handle_header_tx(s, v, tx) == AddHeaders(s, v, tx.block_headers, 1)

----------------------------------------------------------------------------
(* Deposit *)

\* bitcoin::Transaction::txid: the double SHA-256 of the transaction's
\* encoding; the transactions of the model carry distinct ids
Txid(tx) == tx.id

\* PartialMerkleTree::extract_matches: an error for a malformed tree, else the
\* Merkle root the tree computes; the matched txids and indexes are written
\* to the two vectors passed in, which the handler never reads again
extract_matches(proof) ==
    IF ~proof.well_formed
    THEN [ok |-> FALSE, root |-> "none"]
    ELSE [ok |-> TRUE, root |-> proof.root]

\* nomic_signatory_set::output_script: a pure function of the signatory set
\* and the recipient commitment, distinct for distinct arguments
output_script(signatories, data) ==
    [tag |-> "peg", signatories |-> signatories, data |-> data]

\* a script that pays to no signatory set
RawScript(name) == [tag |-> "raw", signatories |-> {}, data |-> name]

\* unsafe_slice_to_address: copy_from_slice panics unless the slice has 33
\* bytes; every caller has checked the length
unsafe_slice_to_address(slice) == slice

\* a search that keeps the last snapshot whose script matches
LastMatchingSet(s, txout, recipient, k) ==
    LET ms == {j \in k..Len(s.signatory_sets) :
                  txout.script_pubkey =
                     output_script(s.signatory_sets[j].signatories, recipient)}
    IN  IF ms = {} THEN 0 ELSE CHOOSE j \in ms : \A x \in ms : x <= j

\* the index (from 1) of the first snapshot whose output script for the
\* recipient is the output's script, or 0
RECURSIVE FirstMatchingSet(_, _, _, _)
FirstMatchingSet(s, txout, recipient, k) ==
    IF k > Len(s.signatory_sets)
    THEN 0
    ELSE IF txout.script_pubkey =
              output_script(s.signatory_sets[k].signatories, recipient)
    THEN k
    ELSE FirstMatchingSet(s, txout, recipient, k + 1)

\* an iterator that is advanced once per output
NextRecipient(recipients, i) ==
    recipients[IF i <= Len(recipients) THEN i ELSE Len(recipients)]

\* recipients.peek() at the i-th output: the iterator is never advanced, so
\* it yields the first recipient at every output
PeekRecipient(recipients, i) == recipients[1]

\* mint coins: depositor_account.balance += txout.value
MintBalance(balance, value) == (balance + value) % U64Mod

\* a Utxo that records the snapshot's position counted from 1
UtxoOneBased(txid, i, k, recipient) ==
    [outpoint |-> [txid |-> txid, vout |-> i - 1],
     signatory_set_index |-> k,
     data |-> recipient]

\* the Utxo of the i-th output (vout i - 1), matched by the k-th snapshot
\* (signatory_set_index k - 1, the position from 0) for the recipient
UtxoOf(txid, i, k, recipient) ==
    [outpoint |-> [txid |-> txid, vout |-> i - 1],
     signatory_set_index |-> k - 1,
     data |-> recipient]

\* the output loop of handle_deposit_tx from the i-th output on (i from 1;
\* the code's vout is i - 1)
RECURSIVE DepositOutputs(_, _, _, _, _)
DepositOutputs(s, v, dtx, i, contains_deposit_outputs) ==
    IF i > Len(dtx.tx.output)
    THEN IF ~contains_deposit_outputs
         THEN Err(s, v, "Transaction does not contain any deposit outputs")
         ELSE Ok([s EXCEPT !.processed_deposit_txids = @ \cup {Txid(dtx.tx)}], v)
    ELSE IF Len(dtx.recipients) = 0
    THEN Err(s, v, "Consumed all recipients")
    ELSE LET recipient == PeekRecipient(dtx.recipients, i)
             txout == dtx.tx.output[i]
         IN  IF BytesLen(recipient) # ADDRESS_LEN
             THEN Err(s, v, "Recipient must be 33 bytes")
             ELSE LET k == FirstMatchingSet(s, txout, recipient, 1)
                  IN  IF k = 0
                      THEN DepositOutputs(s, v, dtx, i + 1, contains_deposit_outputs)
                      ELSE LET depositor_address == unsafe_slice_to_address(recipient)
                               depositor_account == GetOrDefault(s.accounts, depositor_address)
                               utxo == UtxoOf(Txid(dtx.tx), i, k, recipient)
                           IN  IF depositor_account.balance + txout.value >= U64Mod
                                  /\ s.overflow_checks
                               THEN Panic(s, v)
                               ELSE DepositOutputs(
                                      [s EXCEPT
                                         !.accounts = MapInsert(@, depositor_address,
                                            [depositor_account EXCEPT !.balance =
                                               MintBalance(@, txout.value)]),
                                         !.utxos = Append(@, utxo)],
                                      v, dtx, i + 1, TRUE)

\* proof_merkle_root == header_merkle_root
ProofMatchesChain(proof_merkle_root, header_merkle_root) ==
    proof_merkle_root = header_merkle_root

\* a duplicate check that never finds the txid
AlreadyProcessedNever(s, txid) == FALSE

\* state.processed_deposit_txids.contains(txid)
AlreadyProcessed(s, txid) == txid \in s.processed_deposit_txids

handle_deposit_tx(s, v, dtx) ==
    IF AlreadyProcessed(s, Txid(dtx.tx))
    THEN Err(s, v, "Transaction was already processed")
    ELSE LET header == get_header_for_height(s, dtx.height)
         IN  IF header = {}
             THEN Err(s, v, "Merkle root not found for deposit transaction")
             ELSE LET header_merkle_root == (CHOOSE h \in header : TRUE).merkle_root
                      extracted == extract_matches(dtx.proof)
                  IN  IF ~extracted.ok
                      THEN Err(s, v, "Malformed partial merkle tree")
                      ELSE IF ~ProofMatchesChain(extracted.root, header_merkle_root)
                      THEN Err(s, v, "Proof merkle root does not match chain")
                      ELSE DepositOutputs(s, v, dtx, 1, FALSE)

----------------------------------------------------------------------------
(* Transfer and Withdrawal *)

\* Sighash + verify_signature: the signature names the key that signed the
\* transaction's sighash ("corrupt" for one that verifies under no key); it
\* verifies when that key is the sender's
verify_signature(tx) == tx.signature = tx.from

\* a balance check that passes every debit
InsufficientBalanceNever(sender_account, debit) == FALSE

\* sender_account.balance < debit
InsufficientBalance(sender_account, debit) == sender_account.balance < debit

\* a nonce check that rejects only nonces from the future
NonceMismatchAbove(tx, sender_account) == tx.nonce > sender_account.nonce

\* tx.nonce != sender_account.nonce
NonceMismatch(tx, sender_account) == tx.nonce # sender_account.nonce

\* a nonce that is written back without the increment
NextNonceSame(nonce) == nonce

\* sender_account.nonce += 1
NextNonce(nonce) == (nonce + 1) % U64Mod

handle_transfer_tx(s, v, tx) ==
    IF tx.from = tx.to
    THEN Err(s, v, "Account cannot send to itself")
    ELSE IF tx.fee_amount < MIN_FEE
    THEN Err(s, v, "Transaction fee is too small")
    ELSE IF BytesLen(tx.from) # ADDRESS_LEN
    THEN Err(s, v, "Invalid sender address")
    ELSE IF BytesLen(tx.to) # ADDRESS_LEN
    THEN Err(s, v, "Invalid recipient address")
    ELSE IF unsafe_slice_to_address(tx.from) \notin DOMAIN s.accounts
    THEN Err(s, v, "Account does not exist")
    ELSE LET sender_account == s.accounts[unsafe_slice_to_address(tx.from)]
             \* tx.amount + tx.fee_amount, as the build computes it
             debit == (tx.amount + tx.fee_amount) % U64Mod
         IN  IF tx.amount + tx.fee_amount >= U64Mod /\ s.overflow_checks
             THEN Panic(s, v)
             ELSE IF InsufficientBalance(sender_account, debit)
             THEN Err(s, v, "Insufficient balance in sender account")
             ELSE IF NonceMismatch(tx, sender_account)
             THEN Err(s, v, "Invalid account nonce for transaction")
             ELSE IF ~verify_signature(tx)
             THEN Err(s, v, "Invalid signature")
             ELSE LET recipient_account ==
                          GetOrDefault(s.accounts, unsafe_slice_to_address(tx.to))
                  IN  IF s.overflow_checks
                         /\ (sender_account.nonce + 1 >= U64Mod
                             \/ recipient_account.balance + tx.amount >= U64Mod)
                      THEN Panic(s, v)
                      ELSE Ok([s EXCEPT !.accounts =
                                 MapInsert(
                                   MapInsert(@, unsafe_slice_to_address(tx.from),
                                     [balance |-> sender_account.balance - debit,
                                      nonce |-> NextNonce(sender_account.nonce)]),
                                   unsafe_slice_to_address(tx.to),
                                   [recipient_account EXCEPT !.balance =
                                      (@ + tx.amount) % U64Mod])],
                              v)

\* a debit that charges the transfer fee as well
WithdrawalDebitWithFee(balance, amount) == balance - amount - MIN_FEE

\* sender_account.balance -= tx.amount
WithdrawalDebit(balance, amount) == balance - amount

\* a push at the front of the deque
PushWithdrawalFront(q, tx) == <<[value |-> tx.amount, script |-> tx.to]>> \o q

\* state.pending_withdrawals.push_back(Withdrawal { value: tx.amount,
\* script: Script(tx.to) })
PushWithdrawal(q, tx) == Append(q, [value |-> tx.amount, script |-> tx.to])

handle_withdrawal_tx(s, v, tx) ==
    IF BytesLen(tx.from) # ADDRESS_LEN
    THEN Err(s, v, "Invalid sender address")
    ELSE IF unsafe_slice_to_address(tx.from) \notin DOMAIN s.accounts
    THEN Err(s, v, "Account does not exist")
    ELSE LET sender_account == s.accounts[unsafe_slice_to_address(tx.from)]
         IN  IF InsufficientBalance(sender_account, tx.amount)
             THEN Err(s, v, "Insufficient balance in sender account")
             ELSE IF NonceMismatch(tx, sender_account)
             THEN Err(s, v, "Invalid account nonce for withdrawal transaction")
             ELSE IF ~verify_signature(tx)
             THEN Err(s, v, "Invalid signature")
             ELSE IF sender_account.nonce + 1 >= U64Mod /\ s.overflow_checks
             THEN Panic(s, v)
             ELSE Ok([s EXCEPT
                        !.accounts = MapInsert(@, unsafe_slice_to_address(tx.from),
                           [balance |-> WithdrawalDebit(sender_account.balance, tx.amount),
                            nonce |-> NextNonce(sender_account.nonce)]),
                        !.pending_withdrawals = PushWithdrawal(@, tx)],
                     v)

\* a handler that accepts the signature and stores nothing
handle_signature_accepted(s, v, tx) == Ok(s, v)

handle_signature_tx(s, v, tx) == Err(s, v, "Unimplemented transaction type")

----------------------------------------------------------------------------
(* The dispatcher *)

run(s, v, action) ==
    CASE action.kind = "BeginBlock" -> handle_begin_block(s, v, action.tx.time)
      [] action.kind = "WorkProof"  -> handle_work_proof_tx(s, v, action.tx)
      [] action.kind = "Header"     -> handle_header_tx(s, v, action.tx)
      [] action.kind = "Deposit"    -> handle_deposit_tx(s, v, action.tx)
      [] action.kind = "Transfer"   -> handle_transfer_tx(s, v, action.tx)
      [] action.kind = "Withdrawal" -> handle_withdrawal_tx(s, v, action.tx)
      [] action.kind = "Signature"  -> handle_signature_tx(s, v, action.tx)

\* a panic ends the process
Running == last.res # "panic"

\* one call of run: the store and the validator map are written in place
Step(action) ==
    /\ LET out == run(St, validators, action)
       IN  /\ accounts' = out.st.accounts
           /\ redeemed_work_hashes' = out.st.redeemed_work_hashes
           /\ signatory_sets' = out.st.signatory_sets
           /\ processed_deposit_txids' = out.st.processed_deposit_txids
           /\ pending_withdrawals' = out.st.pending_withdrawals
           /\ utxos' = out.st.utxos
           /\ header_cache' = out.st.header_cache
           /\ validators' = out.validators
           /\ last' = [kind |-> action.kind, tx |-> action.tx, res |-> out.res]
    /\ UNCHANGED overflow_checks

\* one call of run in the replica that is followed
Apply(action) ==
    /\ Step(action)
    /\ UNCHANGED peer

----------------------------------------------------------------------------
(* The actions the consensus engine delivers *)

\* block times: a first block, an earlier time, and the two sides of the
\* rotation boundary one interval later
GenesisTime == 123
Times == {GenesisTime, GenesisTime - 1,
          GenesisTime + SIGNATORY_CHANGE_INTERVAL - 1,
          GenesisTime + SIGNATORY_CHANGE_INTERVAL}

\* work proofs: work at the threshold, below it, above it under a key that is
\* no curve point, and the largest work under the genesis validator's key
WorkProofTxs == {[public_key |-> "K1", nonce |-> 1],
                 [public_key |-> "K1", nonce |-> 2],
                 [public_key |-> BadKey, nonce |-> 3],
                 [public_key |-> "K0", nonce |-> 4]}

\* headers: the checkpoint, a valid successor, and a successor of that one
\* without proof of work
CheckpointHeader == [id |-> "H0", prev |-> "none", merkle_root |-> "R0", pow_ok |-> TRUE]
Header1 == [id |-> "H1", prev |-> "H0", merkle_root |-> "R1", pow_ok |-> TRUE]
HeaderBad == [id |-> "H2", prev |-> "H1", merkle_root |-> "R2", pow_ok |-> FALSE]
HeaderTxs == {[block_headers |-> <<Header1>>],
              [block_headers |-> <<Header1, HeaderBad>>],
              [block_headers |-> <<HeaderBad>>]}

\* the validator map at genesis, and the signatory set it gives
GenesisValidators == ("K0" :> 100)
GenesisSignatories == {[pubkey |-> "K0", voting_power |-> 100]}

\* bitcoin transactions: TxOne, TxTwo and TxRotated are the checkpoint
\* block's transactions (indexes 0, 1 and 2); TxNoOutputs and TxForged are in
\* no block
TxOne == [id |-> "T1",
          output |-> <<[value |-> 5000,
                        script_pubkey |-> output_script(GenesisSignatories, "A")]>>]
TxTwo == [id |-> "T2",
          output |-> <<[value |-> 7, script_pubkey |-> RawScript("p2pkh")],
                       [value |-> 3000,
                        script_pubkey |-> output_script(GenesisSignatories, "A")],
                       [value |-> 4000,
                        script_pubkey |-> output_script(GenesisSignatories, "A")]>>]
TxNoOutputs == [id |-> "T4", output |-> <<>>]

\* the signatory set once K1 has redeemed a work proof of MIN_WORK, and a
\* transaction that pays to it and to the genesis signatory set
RotatedSignatories ==
    signatories_from_validators(MapInsert(GenesisValidators, "K1", MIN_WORK)).signatories
TxRotated == [id |-> "T5",
              output |-> <<[value |-> 600,
                            script_pubkey |-> output_script(RotatedSignatories, "A")],
                           [value |-> 700,
                            script_pubkey |-> output_script(GenesisSignatories, "A")]>>]
TxForged == [id |-> "T3",
             output |-> <<[value |-> U64Max,
                           script_pubkey |-> output_script(GenesisSignatories, "A")]>>]

\* partial Merkle trees: the proofs of TxOne and of TxTwo in the checkpoint
\* block, the first with one hash bit flipped, and a tree that does not decode
ProofOne == [root |-> "R0", matches |-> {<<"T1", 0>>}, well_formed |-> TRUE]
ProofTwo == [root |-> "R0", matches |-> {<<"T2", 1>>}, well_formed |-> TRUE]
ProofRotated == [root |-> "R0", matches |-> {<<"T5", 2>>}, well_formed |-> TRUE]
ProofFlipped == [root |-> "Rx", matches |-> {<<"T1", 0>>}, well_formed |-> TRUE]
ProofMalformed == [root |-> "none", matches |-> {}, well_formed |-> FALSE]

Deposit0(tx, proof, block_index) ==
    [height |-> 0, proof |-> proof, tx |-> tx, block_index |-> block_index,
     recipients |-> <<"A">>]

DepositTxs ==
    {Deposit0(TxOne, ProofOne, 0), Deposit0(TxTwo, ProofTwo, 1),
     Deposit0(TxForged, ProofOne, 0), Deposit0(TxTwo, ProofOne, 0),
     Deposit0(TxOne, ProofFlipped, 0), Deposit0(TxOne, ProofMalformed, 0)}
    \cup {[Deposit0(TxOne, ProofOne, 0) EXCEPT !.height = 9],
          [Deposit0(TxOne, ProofOne, 0) EXCEPT !.height = 9, !.recipients = <<>>],
          [Deposit0(TxOne, ProofFlipped, 0) EXCEPT !.recipients = <<>>],
          [Deposit0(TxTwo, ProofOne, 0) EXCEPT !.recipients = <<>>],
          [Deposit0(TxNoOutputs, ProofOne, 0) EXCEPT !.recipients = <<>>],
          [Deposit0(TxTwo, ProofTwo, 1) EXCEPT !.recipients = <<"A", "B">>]}
    \cup {[Deposit0(TxOne, ProofOne, 0) EXCEPT !.recipients = r] :
             r \in {<<>>, <<ShortBytes>>, <<"B", "A">>}}

\* transfers between the two accounts, ones failing each check, and ones
\* failing two checks
Transfer0(from, amount, nonce) ==
    [from |-> from, to |-> IF from = "A" THEN "B" ELSE "A", amount |-> amount,
     fee_amount |-> MIN_FEE, nonce |-> nonce, signature |-> from]

TransferTxs ==
    {Transfer0(f, a, n) : f \in Addr33, a \in {2000, U64Max - 500}, n \in 0..1}
    \cup {[Transfer0("A", 2000, 0) EXCEPT !.to = "A"],
          [Transfer0("A", 2000, 0) EXCEPT !.fee_amount = MIN_FEE - 1],
          [Transfer0("A", 2000, 0) EXCEPT !.from = ShortBytes],
          [Transfer0("A", 2000, 0) EXCEPT !.to = ShortBytes],
          [Transfer0("A", 2000, 0) EXCEPT !.signature = "corrupt"],
          [Transfer0("A", 2000, 0) EXCEPT !.signature = "B"]}
    \cup {[Transfer0("A", 2000, 0) EXCEPT !.to = "A", !.fee_amount = MIN_FEE - 1],
          [Transfer0("A", 2000, 0) EXCEPT !.from = ShortBytes, !.fee_amount = MIN_FEE - 1],
          [Transfer0("A", 2000, 1) EXCEPT !.signature = "corrupt"]}

\* withdrawals of each account, and one failing each check
Withdrawal0(from, amount, nonce) ==
    [from |-> from, to |-> RawScript("p2wpkh"), amount |-> amount,
     nonce |-> nonce, signature |-> from]

WithdrawalTxs ==
    {Withdrawal0(f, a, n) : f \in Addr33, a \in {0, 1500}, n \in 0..1}
    \cup {[Withdrawal0("A", 1500, 0) EXCEPT !.from = ShortBytes],
          [Withdrawal0("A", 1500, 0) EXCEPT !.signature = "corrupt"],
          [Withdrawal0("A", U64Max, 0) EXCEPT !.nonce = 1]}

SignatureTxs == {[signature |-> "corrupt"]}

\* the inputs of the whole system's specification: for each kind of action,
\* ones that succeed and ones that fail
TimesSmall == {GenesisTime, GenesisTime + SIGNATORY_CHANGE_INTERVAL}
WorkProofTxsSmall == {[public_key |-> "K1", nonce |-> 1],
                      [public_key |-> "K1", nonce |-> 2]}
HeaderTxsSmall == {[block_headers |-> <<Header1>>],
                   [block_headers |-> <<Header1, HeaderBad>>]}
DepositTxsSmall ==
    {Deposit0(TxOne, ProofOne, 0), Deposit0(TxOne, ProofFlipped, 0),
     [Deposit0(TxOne, ProofOne, 0) EXCEPT !.height = 9],
     [Deposit0(TxOne, ProofOne, 0) EXCEPT !.recipients = <<"B", "A">>]}
TransferTxsSmall ==
    {Transfer0("A", 1000, 0), Transfer0("A", 1000, 1), Transfer0("B", 1000, 0),
     [Transfer0("A", 1000, 0) EXCEPT !.signature = "corrupt"]}
WithdrawalTxsSmall ==
    {Withdrawal0("A", 1500, 0), Withdrawal0("A", 1500, 1), Withdrawal0("B", 0, 0)}

\* the sender's nonce is below the model's bound
NonceBudget(from) == from \in DOMAIN accounts => accounts[from].nonce < MaxNonce

BeginBlock(time) ==
    /\ Running
    /\ Len(signatory_sets) < MaxSnapshots
    /\ Apply([kind |-> "BeginBlock", tx |-> [time |-> time]])

WorkProof(tx) ==
    /\ Running
    /\ Apply([kind |-> "WorkProof", tx |-> tx])

Header(tx) ==
    /\ Running
    /\ Apply([kind |-> "Header", tx |-> tx])

Deposit(tx) ==
    /\ Running
    /\ Apply([kind |-> "Deposit", tx |-> tx])

Transfer(tx) ==
    /\ Running
    /\ NonceBudget(tx.from)
    /\ Apply([kind |-> "Transfer", tx |-> tx])

Withdrawal(tx) ==
    /\ Running
    /\ NonceBudget(tx.from)
    /\ Len(pending_withdrawals) < MaxWithdrawals
    /\ Apply([kind |-> "Withdrawal", tx |-> tx])

Signature(tx) ==
    /\ Running
    /\ Apply([kind |-> "Signature", tx |-> tx])

\* the store after `initialize`, the validator map the engine starts with
Genesis ==
    /\ accounts = EmptyMap
    /\ redeemed_work_hashes = {}
    /\ signatory_sets = <<>>
    /\ processed_deposit_txids = {}
    /\ pending_withdrawals = <<>>
    /\ utxos = <<>>
    /\ header_cache = <<CheckpointHeader>>
    /\ validators = GenesisValidators
    /\ overflow_checks \in BOOLEAN
    /\ last = [kind |-> "Init", tx |-> [time |-> 0], res |-> "Ok"]

\* a second replica at genesis, of a build with or without overflow checks
PeerGenesis(checks) ==
    [st |-> [accounts |-> EmptyMap,
             redeemed_work_hashes |-> {},
             signatory_sets |-> <<>>,
             processed_deposit_txids |-> {},
             pending_withdrawals |-> <<>>,
             utxos |-> <<>>,
             header_cache |-> <<CheckpointHeader>>,
             overflow_checks |-> checks],
     validators |-> GenesisValidators,
     res |-> "Ok"]

\* one replica is followed; the second is an idle copy of the same build
Init ==
    /\ Genesis
    /\ peer = PeerGenesis(overflow_checks)

\* the whole system: every kind of action
Next ==
    \/ \E time \in TimesSmall : BeginBlock(time)
    \/ \E tx \in WorkProofTxsSmall : WorkProof(tx)
    \/ \E tx \in HeaderTxsSmall : Header(tx)
    \/ \E tx \in DepositTxsSmall : Deposit(tx)
    \/ \E tx \in TransferTxsSmall : Transfer(tx)
    \/ \E tx \in WithdrawalTxsSmall : Withdrawal(tx)
    \/ \E tx \in SignatureTxs : Signature(tx)

Spec == Init /\ [][Next]_vars

\* the signatory set and the validator map: block times on both sides of the
\* rotation boundary, and every work proof
NextPeg ==
    \/ \E time \in Times : BeginBlock(time)
    \/ \E tx \in WorkProofTxs : WorkProof(tx)

SpecPeg == Init /\ [][NextPeg]_vars

\* deposits: a first block, headers, and every deposit
NextDeposit ==
    \/ BeginBlock(GenesisTime)
    \/ \E tx \in HeaderTxs : Header(tx)
    \/ \E tx \in DepositTxs : Deposit(tx)

SpecDeposit == Init /\ [][NextDeposit]_vars

\* deposits across rotations: block times one and two rotation intervals
\* after the first, a work proof that changes the validator map, and deposits
\* that pay to the genesis signatory set and to the changed one
TimesRotation == {GenesisTime, GenesisTime + SIGNATORY_CHANGE_INTERVAL,
                  GenesisTime + 2 * SIGNATORY_CHANGE_INTERVAL}
DepositTxsRotation == {Deposit0(TxOne, ProofOne, 0), Deposit0(TxTwo, ProofTwo, 1),
                       Deposit0(TxRotated, ProofRotated, 2)}
NextRotation ==
    \/ \E time \in TimesRotation : BeginBlock(time)
    \/ WorkProof([public_key |-> "K1", nonce |-> 1])
    \/ \E tx \in DepositTxsRotation : Deposit(tx)

SpecRotation == Init /\ [][NextRotation]_vars

\* accounts: a first block, deposits that fund account A, and every transfer
\* and withdrawal
NextAccounts ==
    \/ BeginBlock(GenesisTime)
    \/ \E tx \in {Deposit0(TxOne, ProofOne, 0), Deposit0(TxTwo, ProofTwo, 1)} :
          Deposit(tx)
    \/ \E tx \in TransferTxs : Transfer(tx)
    \/ \E tx \in WithdrawalTxs : Withdrawal(tx)

SpecAccounts == Init /\ [][NextAccounts]_vars

\* two replicas: the second starts from the same store and validator map, in
\* a build of either profile
InitReplicas ==
    /\ Genesis
    /\ \E checks \in BOOLEAN : peer = PeerGenesis(checks)

\* the actions the consensus engine delivers to both replicas: for each kind
\* of action, ones whose u64 arithmetic stays in range and ones whose does not
ReplicatedActions ==
    {[kind |-> "BeginBlock", tx |-> [time |-> t]] :
        t \in {GenesisTime, GenesisTime - 1, GenesisTime + SIGNATORY_CHANGE_INTERVAL}}
    \cup {[kind |-> "WorkProof", tx |-> tx] :
              tx \in {[public_key |-> "K1", nonce |-> 1], [public_key |-> "K0", nonce |-> 4]}}
    \cup {[kind |-> "Header", tx |-> [block_headers |-> <<Header1, HeaderBad>>]]}
    \cup {[kind |-> "Deposit", tx |-> Deposit0(TxOne, ProofOne, 0)]}
    \cup {[kind |-> "Transfer", tx |-> tx] :
              tx \in {Transfer0("A", 1000, 0), Transfer0("A", U64Max - 500, 0)}}
    \cup {[kind |-> "Withdrawal", tx |-> Withdrawal0("A", 1500, 0)]}
    \cup {[kind |-> "Signature", tx |-> tx] : tx \in SignatureTxs}

\* the bounds of the model, on the replica that is followed
WithinBounds(action) ==
    CASE action.kind = "BeginBlock" -> Len(signatory_sets) < MaxSnapshots
      [] action.kind = "Transfer"   -> NonceBudget(action.tx.from)
      [] action.kind = "Withdrawal" -> /\ NonceBudget(action.tx.from)
                                       /\ Len(pending_withdrawals) < MaxWithdrawals
      [] OTHER                      -> TRUE

\* the engine delivers one action to both replicas; each calls run on its own
\* store and validator map
Replicated(action) ==
    /\ Running
    /\ peer.res # "panic"
    /\ WithinBounds(action)
    /\ Step(action)
    /\ LET out == run(peer.st, peer.validators, action)
       IN  peer' = [st |-> out.st, validators |-> out.validators, res |-> out.res]

NextReplicas == \E action \in ReplicatedActions : Replicated(action)

SpecReplicas == InitReplicas /\ [][NextReplicas]_vars

----------------------------------------------------------------------------
(* Properties *)

\* run returned an error
Failed(l) == l.res \notin {"Ok", "panic"}

Signed(l) == l.kind \in {"Transfer", "Withdrawal"}

\* the nonce of an address, 0 for an address without account
NonceOf(m, a) == IF a \in DOMAIN m THEN m[a].nonce ELSE 0

\* C1: whenever run returns an error, the store (accounts, replay sets,
\* queues, signatory history, header cache) and the validator map are what
\* they were before the call.
C1_FailedActionChangesNothing ==
    [][Failed(last') => (St' = St /\ validators' = validators)]_vars

\* C2: a Deposit is accepted only if its proof commits to exactly the
\* presented (txid, block_index) pair and computes the Merkle root of the
\* cached header at the deposit's height; a deposit whose proof has that root
\* but commits to another transaction or index is rejected and mints nothing
\* (the claim also names the error of that rejection, "Proof merkle root does
\* not match chain").
C2_DepositProofCommitsToTx ==
    [][last'.kind = "Deposit" =>
          LET dtx == last'.tx
              header == get_header_for_height(St, dtx.height)
              root_ok == /\ header # {}
                         /\ dtx.proof.well_formed
                         /\ \A h \in header : dtx.proof.root = h.merkle_root
              commits == dtx.proof.matches = {<<Txid(dtx.tx), dtx.block_index>>}
          IN  /\ last'.res = "Ok" => (commits /\ root_ok)
              /\ (root_ok /\ ~commits /\ Txid(dtx.tx) \notin processed_deposit_txids)
                    => /\ last'.res # "Ok"
                       /\ accounts' = accounts]_vars

\* C3: the set of processed txids only grows, a successful Deposit puts its
\* txid in it, and a Deposit whose txid is in it fails with "Transaction was
\* already processed", crediting no account and appending no UTXO: once a
\* Deposit of a txid has succeeded, every later Deposit of that txid fails.
C3_DepositReplayRejected ==
    [][/\ processed_deposit_txids \subseteq processed_deposit_txids'
       /\ (last'.kind = "Deposit" /\ last'.res = "Ok")
             => Txid(last'.tx.tx) \in processed_deposit_txids'
       /\ (last'.kind = "Deposit" /\ Txid(last'.tx.tx) \in processed_deposit_txids)
             => /\ last'.res = "Transaction was already processed"
                /\ accounts' = accounts
                /\ utxos' = utxos]_vars

\* a Deposit of a processed txid, with another height than the one that
\* succeeded, has been rejected as a replay
C3_Witness ==
    /\ last.kind = "Deposit"
    /\ last.res = "Transaction was already processed"
    /\ last.tx.height = 9
    /\ Len(utxos) > 0

\* C4: the set of redeemed hashes only grows, a successful WorkProof puts its
\* hash in it, and a WorkProof whose hash is in it fails with "Work proof has
\* already been redeemed" and leaves the validator map unchanged: a hash
\* grants voting power at most once.
C4_WorkProofReplayRejected ==
    [][/\ redeemed_work_hashes \subseteq redeemed_work_hashes'
       /\ (last'.kind = "WorkProof" /\ last'.res = "Ok")
             => Sha256(last'.tx.public_key, last'.tx.nonce) \in redeemed_work_hashes'
       /\ (last'.kind = "WorkProof"
           /\ Sha256(last'.tx.public_key, last'.tx.nonce) \in redeemed_work_hashes)
             => /\ last'.res = "Work proof has already been redeemed"
                /\ validators' = validators]_vars

\* a redeemed work proof has been submitted again and rejected
C4_Witness ==
    /\ last.kind = "WorkProof"
    /\ last.res = "Work proof has already been redeemed"
    /\ Sha256(last.tx.public_key, last.tx.nonce) \in redeemed_work_hashes
    /\ last.tx.public_key \in DOMAIN validators

\* C5: a successful Transfer or Withdrawal raises its sender's nonce by
\* exactly 1; every other call of run, and every other account in that call,
\* leaves the nonce as it was (0 for an account the call creates).
C5_NonceMonotonic ==
    [][\A a \in Addr33 :
          IF Signed(last') /\ last'.res = "Ok" /\ last'.tx.from = a
          THEN a \in DOMAIN accounts /\ NonceOf(accounts', a) = NonceOf(accounts, a) + 1
          ELSE /\ NonceOf(accounts', a) = NonceOf(accounts, a)
               /\ a \in DOMAIN accounts => a \in DOMAIN accounts']_vars

\* a transfer has succeeded between two accounts that have both signed before:
\* the sender's nonce was raised, the credited recipient's nonce kept
C5_Witness ==
    /\ last.kind = "Transfer"
    /\ last.res = "Ok"
    /\ NonceOf(accounts, last.tx.from) = 2
    /\ NonceOf(accounts, last.tx.to) = 1

NonceErrors == {"Invalid account nonce for transaction",
                "Invalid account nonce for withdrawal transaction"}

\* the checks a handler makes before its nonce check pass, for a sender that
\* has an account
PrecedingChecksPass(l, sender_account) ==
    IF l.kind = "Transfer"
    THEN /\ l.tx.from # l.tx.to
         /\ l.tx.fee_amount >= MIN_FEE
         /\ BytesLen(l.tx.to) = ADDRESS_LEN
         /\ sender_account.balance >= l.tx.amount + l.tx.fee_amount
    ELSE sender_account.balance >= l.tx.amount

\* the errors of the checks a handler makes before its nonce check, and the
\* overflow panic of amount + fee_amount
PrecedingErrors == {"Account cannot send to itself", "Transaction fee is too small",
                    "Invalid recipient address",
                    "Insufficient balance in sender account", "panic"}

\* a Transfer or Withdrawal carries a nonce its sender has used
UsedNonce(l, m) == Signed(l) /\ l.tx.from \in DOMAIN m /\ l.tx.nonce < m[l.tx.from].nonce

RECURSIVE SumOver(_, _)
SumOver(m, keys) ==
    IF keys = {}
    THEN 0
    ELSE LET k == CHOOSE x \in keys : TRUE
         IN  m[k].balance + SumOver(m, keys \ {k})

SumBalances(m) == SumOver(m, DOMAIN m)

BalanceOf(m, a) == IF a \in DOMAIN m THEN m[a].balance ELSE 0

\* C7: a successful Transfer lowers balance(from) by exactly amount +
\* fee_amount and raises balance(to) by exactly amount (a missing recipient
\* is created with nonce 0); no other account changes and the sum of all
\* balances falls by exactly fee_amount.
C7_TransferConserves ==
    [][(last'.kind = "Transfer" /\ last'.res = "Ok") =>
          LET tx == last'.tx
          IN  /\ BalanceOf(accounts', tx.from)
                    = BalanceOf(accounts, tx.from) - (tx.amount + tx.fee_amount)
              /\ BalanceOf(accounts', tx.to) = BalanceOf(accounts, tx.to) + tx.amount
              /\ tx.to \notin DOMAIN accounts => accounts'[tx.to].nonce = 0
              /\ DOMAIN accounts' = DOMAIN accounts \cup {tx.to}
              /\ \A a \in DOMAIN accounts \ {tx.from, tx.to} : accounts'[a] = accounts[a]
              /\ SumBalances(accounts') = SumBalances(accounts) - tx.fee_amount]_vars

\* the outputs of a deposit's transaction (by index, from 1) whose script is
\* the output script of some snapshot of the history for the first recipient
MatchedOutputs(history, dtx) ==
    {i \in 1..Len(dtx.tx.output) :
        /\ Len(dtx.recipients) > 0
        /\ \E k \in 1..Len(history) :
              dtx.tx.output[i].script_pubkey
                 = output_script(history[k].signatories, dtx.recipients[1])}

RECURSIVE SumValues(_, _)
SumValues(output, indexes) ==
    IF indexes = {}
    THEN 0
    ELSE LET i == CHOOSE x \in indexes : TRUE
         IN  output[i].value + SumValues(output, indexes \ {i})

\* C8: a successful Deposit raises the sum of all balances by exactly the sum
\* of the values of its matched outputs, appends one Utxo per matched output,
\* with that output's index as vout, and records the txid as processed.
C8_DepositConserves ==
    [][(last'.kind = "Deposit" /\ last'.res = "Ok") =>
          LET dtx == last'.tx
              matched == MatchedOutputs(signatory_sets, dtx)
          IN  /\ SumBalances(accounts')
                    = SumBalances(accounts) + SumValues(dtx.tx.output, matched)
              /\ Len(utxos') = Len(utxos) + Cardinality(matched)
              /\ SubSeq(utxos', 1, Len(utxos)) = utxos
              /\ {utxos'[j].outpoint.vout + 1 : j \in Len(utxos) + 1 .. Len(utxos')}
                    = matched
              /\ Txid(dtx.tx) \in processed_deposit_txids']_vars

\* C9: a successful Withdrawal lowers balance(from) by exactly amount, changes
\* no other account, and appends exactly one entry to pending_withdrawals,
\* with value = amount and script = the transaction's `to`.
C9_WithdrawalConserves ==
    [][(last'.kind = "Withdrawal" /\ last'.res = "Ok") =>
          LET tx == last'.tx
          IN  /\ tx.from \in DOMAIN accounts
              /\ DOMAIN accounts' = DOMAIN accounts
              /\ accounts'[tx.from].balance = accounts[tx.from].balance - tx.amount
              /\ \A a \in DOMAIN accounts \ {tx.from} : accounts'[a] = accounts[a]
              /\ pending_withdrawals'
                    = Append(pending_withdrawals,
                             [value |-> tx.amount, script |-> tx.to])]_vars

\* a withdrawal of a positive amount has succeeded while another account
\* exists and an earlier entry is pending
C9_Witness ==
    /\ last.kind = "Withdrawal"
    /\ last.res = "Ok"
    /\ last.tx.amount > 0
    /\ Len(pending_withdrawals) = 2
    /\ Cardinality(DOMAIN accounts) = 2

\* C10: consecutive snapshots of the signatory history are at least
\* SIGNATORY_CHANGE_INTERVAL apart in time.
C10_RotationCadence ==
    \A i \in 1..(Len(signatory_sets) - 1) :
        signatory_sets[i + 1].time - signatory_sets[i].time >= SIGNATORY_CHANGE_INTERVAL

\* the (pubkey, voting_power) pairs of a validator map
PairsOf(v) == {[pubkey |-> k, voting_power |-> v[k]] : k \in DOMAIN v}

\* C11: a BeginBlock with block time t appends exactly one snapshot (t, S), S
\* the pairs of the validator map, when the history is empty or its most
\* recent snapshot has time L with t - L >= SIGNATORY_CHANGE_INTERVAL;
\* otherwise (t - L < SIGNATORY_CHANGE_INTERVAL) it leaves the history as it
\* was.
C11_BeginBlockTransition ==
    [][last'.kind = "BeginBlock" =>
          LET t == last'.tx.time
              due == \/ Len(signatory_sets) = 0
                     \/ t - signatory_sets[Len(signatory_sets)].time
                           >= SIGNATORY_CHANGE_INTERVAL
          IN  IF due
              THEN signatory_sets'
                      = Append(signatory_sets,
                               [time |-> t, signatories |-> PairsOf(validators)])
              ELSE signatory_sets' = signatory_sets]_vars

\* the contents of a store
StoreOf(s) == [accounts |-> s.accounts,
               redeemed_work_hashes |-> s.redeemed_work_hashes,
               signatory_sets |-> s.signatory_sets,
               processed_deposit_txids |-> s.processed_deposit_txids,
               pending_withdrawals |-> s.pending_withdrawals,
               utxos |-> s.utxos,
               header_cache |-> s.header_cache]

\* C12: two replicas started from the same store and validator map and fed
\* the same actions have, after each action, the same result of run, the same
\* store contents and the same validator map.
C12_ReplicasAgree ==
    /\ peer.res = last.res
    /\ StoreOf(peer.st) = StoreOf(St)
    /\ peer.validators = validators

\* C13: a Transfer whose amount + fee_amount exceeds u64::MAX is not accepted
\* and changes no account, whatever the sender's balance; an accepted
\* Transfer has balance(from) >= amount + fee_amount for the true sum.
C13_TransferOverflowRejected ==
    [][last'.kind = "Transfer" =>
          LET tx == last'.tx
          IN  /\ tx.amount + tx.fee_amount > U64Max
                    => (last'.res # "Ok" /\ accounts' = accounts)
              /\ last'.res = "Ok"
                    => BalanceOf(accounts, tx.from) >= tx.amount + tx.fee_amount]_vars

\* the voting power of a key, 0 for a key that is no validator
VotingPower(v, k) == IF k \in DOMAIN v THEN v[k] ELSE 0

\* C14: a successful WorkProof with work w sets validators[public_key] to
\* min(old + w, u64::MAX), old being 0 for an absent key; the stored voting
\* power does not wrap and does not decrease.
C14_VotingPowerSaturates ==
    [][(last'.kind = "WorkProof" /\ last'.res = "Ok") =>
          LET k == last'.tx.public_key
              old == VotingPower(validators, k)
              w == work(Sha256(k, last'.tx.nonce))
          IN  /\ k \in DOMAIN validators'
              /\ validators'[k] = IF old + w > U64Max THEN U64Max ELSE old + w
              /\ validators'[k] >= old]_vars

\* C15: a WorkProof is accepted if and only if work(h) >= MIN_WORK and h is
\* not a redeemed hash, h being SHA-256(public_key || nonce); one with less
\* work fails with "Proof has less than minimum work value", its hash redeemed
\* or not; an accepted one inserts h in the redeemed hashes and changes no
\* entry of the validator map but that of public_key, and nothing else in the
\* store.
C15_WorkProofAcceptance ==
    [][last'.kind = "WorkProof" =>
          LET k == last'.tx.public_key
              h == Sha256(k, last'.tx.nonce)
          IN  /\ last'.res = "Ok" <=> (work(h) >= MIN_WORK /\ h \notin redeemed_work_hashes)
              /\ work(h) < MIN_WORK
                    => last'.res = "Proof has less than minimum work value"
              /\ last'.res = "Ok"
                    => /\ redeemed_work_hashes' = redeemed_work_hashes \cup {h}
                       /\ DOMAIN validators' = DOMAIN validators \cup {k}
                       /\ \A x \in DOMAIN validators \ {k} : validators'[x] = validators[x]
                       /\ [St' EXCEPT !.redeemed_work_hashes = {}]
                             = [St EXCEPT !.redeemed_work_hashes = {}]]_vars

\* the result of a Transfer by the first failing check of the list: self
\* transfer, fee, address lengths, sender account, balance against the true
\* sum amount + fee_amount, nonce, signature; "Ok" when all seven pass
TransferVerdict(m, tx) ==
    IF tx.from = tx.to
    THEN {"Account cannot send to itself"}
    ELSE IF tx.fee_amount < MIN_FEE
    THEN {"Transaction fee is too small"}
    ELSE IF BytesLen(tx.from) # ADDRESS_LEN \/ BytesLen(tx.to) # ADDRESS_LEN
    THEN {"Invalid sender address", "Invalid recipient address"}
    ELSE IF tx.from \notin DOMAIN m
    THEN {"Account does not exist"}
    ELSE IF m[tx.from].balance < tx.amount + tx.fee_amount
    THEN {"Insufficient balance in sender account"}
    ELSE IF tx.nonce # m[tx.from].nonce
    THEN {"Invalid account nonce for transaction"}
    ELSE IF ~verify_signature(tx)
    THEN {"Invalid signature"}
    ELSE {"Ok"}

\* C16: a Transfer is rejected with the error of the earliest violated check
\* in the order from = to, fee_amount < 1000, an address that is not 33 bytes,
\* sender account missing, balance < amount + fee_amount, nonce mismatch,
\* invalid signature; a Transfer passing all seven checks succeeds.
C16_TransferCheckOrder ==
    [][last'.kind = "Transfer" => last'.res \in TransferVerdict(accounts, last'.tx)]_vars

\* the result of a Withdrawal by the first failing check of the list: sender
\* address length, sender account, balance, nonce, signature
WithdrawalVerdict(m, tx) ==
    IF BytesLen(tx.from) # ADDRESS_LEN
    THEN "Invalid sender address"
    ELSE IF tx.from \notin DOMAIN m
    THEN "Account does not exist"
    ELSE IF m[tx.from].balance < tx.amount
    THEN "Insufficient balance in sender account"
    ELSE IF tx.nonce # m[tx.from].nonce
    THEN "Invalid account nonce for withdrawal transaction"
    ELSE IF ~verify_signature(tx)
    THEN "Invalid signature"
    ELSE "Ok"

\* C17: a Withdrawal is rejected with the error of the earliest violated
\* check in the order len(from) # 33, sender account missing, balance <
\* amount, nonce mismatch, invalid signature; a rejected Withdrawal leaves
\* the accounts and pending_withdrawals as they were.
C17_WithdrawalCheckOrder ==
    [][last'.kind = "Withdrawal" =>
          /\ last'.res = WithdrawalVerdict(accounts, last'.tx)
          /\ last'.res # "Ok" => /\ accounts' = accounts
                                 /\ pending_withdrawals' = pending_withdrawals]_vars

\* a withdrawal that exceeds the balance and carries a wrong nonce has been
\* rejected with the balance error, by an account that has signed before
C17_Witness ==
    /\ last.kind = "Withdrawal"
    /\ last.res = "Insufficient balance in sender account"
    /\ last.tx.from \in DOMAIN accounts
    /\ accounts[last.tx.from].nonce > 0
    /\ last.tx.nonce # accounts[last.tx.from].nonce

\* the results a Deposit may have by the first failing check of the list:
\* txid processed, no header at the height, Merkle proof mismatch (the proof
\* does not compute the header's root, or does not commit to exactly the
\* presented txid and block index), recipient checks, no matching output
DepositVerdict(s, dtx) ==
    LET header == get_header_for_height(s, dtx.height)
    IN  IF Txid(dtx.tx) \in s.processed_deposit_txids
        THEN {"Transaction was already processed"}
        ELSE IF header = {}
        THEN {"Merkle root not found for deposit transaction"}
        ELSE IF ~dtx.proof.well_formed
        THEN {"Proof merkle root does not match chain", "Malformed partial merkle tree"}
        ELSE IF \/ \E h \in header : dtx.proof.root # h.merkle_root
                \/ dtx.proof.matches # {<<Txid(dtx.tx), dtx.block_index>>}
        THEN {"Proof merkle root does not match chain"}
        ELSE IF Len(dtx.tx.output) > 0 /\ Len(dtx.recipients) = 0
        THEN {"Consumed all recipients"}
        ELSE IF Len(dtx.tx.output) > 0 /\ BytesLen(dtx.recipients[1]) # ADDRESS_LEN
        THEN {"Recipient must be 33 bytes"}
        ELSE IF MatchedOutputs(s.signatory_sets, dtx) = {}
        THEN {"Transaction does not contain any deposit outputs"}
        ELSE {"Ok", "panic"}

\* C18: a Deposit is rejected with the error of the earliest failing check in
\* the order txid already processed, no cached header at the height, Merkle
\* proof mismatch, recipient checks, no matching output.
C18_DepositCheckOrder ==
    [][last'.kind = "Deposit" => last'.res \in DepositVerdict(St, last'.tx)]_vars

\* a deposit passes the replay check, the header lookup and the proof check
\* of the handler, and its first recipient has 33 bytes
PassesProofChecks(s, dtx) ==
    /\ Txid(dtx.tx) \notin s.processed_deposit_txids
    /\ get_header_for_height(s, dtx.height) # {}
    /\ dtx.proof.well_formed
    /\ \A h \in get_header_for_height(s, dtx.height) : dtx.proof.root = h.merkle_root
    /\ Len(dtx.recipients) > 0
    /\ BytesLen(dtx.recipients[1]) = ADDRESS_LEN

\* C19: a Deposit that passes the replay, header and proof checks and has a
\* 33-byte first recipient succeeds if and only if one of its outputs has the
\* output script of some snapshot of the history for that recipient;
\* otherwise it fails with "Transaction does not contain any deposit
\* outputs", credits nothing and is not recorded as processed.  A deposit
\* applied while the history is empty fails.
C19_DepositSucceedsIffMatch ==
    [][last'.kind = "Deposit" =>
          LET dtx == last'.tx
              matched == MatchedOutputs(signatory_sets, dtx)
          IN  /\ PassesProofChecks(St, dtx) =>
                    /\ last'.res = "Ok" <=> matched # {}
                    /\ matched = {} =>
                          /\ last'.res = "Transaction does not contain any deposit outputs"
                          /\ accounts' = accounts
                          /\ utxos' = utxos
                          /\ processed_deposit_txids' = processed_deposit_txids
              /\ Len(signatory_sets) = 0 => Failed(last')]_vars

\* what a Transfer or Withdrawal debits its sender: amount + fee_amount, or
\* amount
DebitOf(l) == IF l.kind = "Transfer" THEN l.tx.amount + l.tx.fee_amount ELSE l.tx.amount

\* a Transfer or Withdrawal reaches the handler's balance check: the checks
\* before it pass
ReachesBalanceCheck(l, m) ==
    /\ Signed(l)
    /\ l.tx.from \in DOMAIN m
    /\ BytesLen(l.tx.from) = ADDRESS_LEN
    /\ l.kind = "Transfer" => /\ l.tx.from # l.tx.to
                              /\ l.tx.fee_amount >= MIN_FEE
                              /\ BytesLen(l.tx.to) = ADDRESS_LEN

\* C20: every balance is a value of 0..2^64-1; a successful Transfer debits
\* amount + fee_amount and a successful Withdrawal debits amount, and only
\* when the sender's balance is at least that debit; a Transfer or Withdrawal
\* that reaches the balance check with a smaller balance is rejected with
\* "Insufficient balance in sender account" (or, where the build checks
\* overflow and the debit exceeds u64::MAX, aborted).
C20_BalanceNeverUnderflows ==
    [][/\ \A a \in DOMAIN accounts' : accounts'[a].balance \in 0..U64Max
       /\ (Signed(last') /\ last'.res = "Ok")
             => /\ BalanceOf(accounts, last'.tx.from) >= DebitOf(last')
                /\ BalanceOf(accounts', last'.tx.from)
                      = BalanceOf(accounts, last'.tx.from) - DebitOf(last')
       /\ (ReachesBalanceCheck(last', accounts)
           /\ accounts[last'.tx.from].balance < DebitOf(last'))
             => last'.res \in {"Insufficient balance in sender account", "panic"}]_vars

\* the validator map holds a key that does not parse as a public key
HasBadKey(v) == \E k \in DOMAIN v : ~PublicKeyParses(k)

C22_HistoryNonEmptyAfterBeginBlock ==
    [][/\ last'.kind = "BeginBlock" => Len(signatory_sets') > 0
       /\ Len(signatory_sets) > 0 => Len(signatory_sets') > 0]_vars

\* C23: across any action the history before the action is a prefix of the
\* history after it, the history grows by at most one snapshot, and only a
\* BeginBlock grows it.
C23_HistoryAppendOnly ==
    [][/\ Len(signatory_sets') >= Len(signatory_sets)
       /\ Len(signatory_sets') <= Len(signatory_sets) + 1
       /\ SubSeq(signatory_sets', 1, Len(signatory_sets)) = signatory_sets
       /\ Len(signatory_sets') > Len(signatory_sets) => last'.kind = "BeginBlock"]_vars

\* a rotation has pushed a second snapshot, of a validator map that had
\* changed since the first, which is still stored as it was pushed
C23_Witness ==
    /\ last.kind = "BeginBlock"
    /\ Len(signatory_sets) = 2
    /\ signatory_sets[1].signatories = GenesisSignatories
    /\ signatory_sets[2].signatories = PairsOf(validators)
    /\ signatory_sets[2].signatories # signatory_sets[1].signatories

\* C24: a Signature transaction is rejected in every state with
\* "Unimplemented transaction type" and changes neither the store nor the
\* validator map.
C24_SignatureUnimplemented ==
    [][last'.kind = "Signature" =>
          /\ last'.res = "Unimplemented transaction type"
          /\ St' = St
          /\ validators' = validators]_vars

\* a Signature transaction has been rejected in a state with accounts, a
\* pending withdrawal, a signatory set and a validator added by a work proof
C24_Witness ==
    /\ last.kind = "Signature"
    /\ last.res = "Unimplemented transaction type"
    /\ DOMAIN accounts # {}
    /\ Len(pending_withdrawals) > 0
    /\ Len(signatory_sets) > 0
    /\ validators # GenesisValidators

\* C25: only a successful WorkProof changes the validator map: BeginBlock,
\* Header, Deposit, Transfer, Withdrawal and Signature, successful or not,
\* and a failing WorkProof leave it as it was.
C25_ValidatorMapFrame ==
    [][validators' # validators
          => (last'.kind = "WorkProof" /\ last'.res = "Ok")]_vars

\* a BeginBlock has rotated the signatory set to a validator map that a work
\* proof had changed, and has left that map as it was
C25_Witness ==
    /\ last.kind = "BeginBlock"
    /\ last.res = "Ok"
    /\ Len(signatory_sets) = 2
    /\ validators # GenesisValidators
    /\ signatory_sets[2].signatories = PairsOf(validators)

\* a deposit reaches the output loop of the handler: its txid is not
\* processed, a header is cached at its height, and its proof computes that
\* header's Merkle root
ReachesOutputLoop(s, dtx) ==
    /\ Txid(dtx.tx) \notin s.processed_deposit_txids
    /\ get_header_for_height(s, dtx.height) # {}
    /\ dtx.proof.well_formed
    /\ \A h \in get_header_for_height(s, dtx.height) : dtx.proof.root = h.merkle_root

\* within one Deposit only the first recipient is used: no account but the
\* first recipient's changes, every appended Utxo carries the first
\* recipient, and when the first recipient has 33 bytes the deposit succeeds
\* exactly when an output matches a snapshot for the first recipient
FirstRecipientOnly(dtx, res, m, mNext, q, qNext, history, reaches) ==
    /\ \A a \in DOMAIN mNext :
          (a \notin DOMAIN m \/ mNext[a] # m[a])
             => (Len(dtx.recipients) > 0 /\ a = dtx.recipients[1])
    /\ \A j \in (Len(q) + 1)..Len(qNext) : qNext[j].data = dtx.recipients[1]
    /\ (reaches /\ Len(dtx.recipients) > 0
        /\ BytesLen(dtx.recipients[1]) = ADDRESS_LEN /\ res # "panic")
          => (res = "Ok" <=> MatchedOutputs(history, dtx) # {})

\* C26 as claimed: only the first recipient of a Deposit is used; "Consumed
\* all recipients" is raised exactly when the recipients list is empty and the
\* transaction has at least one output, "Recipient must be 33 bytes" exactly
\* when the first recipient has not 33 bytes and the transaction has at least
\* one output.
C26_RecipientErrorsExactly ==
    [][last'.kind = "Deposit" =>
          LET dtx == last'.tx
          IN  /\ FirstRecipientOnly(dtx, last'.res, accounts, accounts', utxos, utxos',
                                    signatory_sets, ReachesOutputLoop(St, dtx))
              /\ last'.res = "Consumed all recipients"
                    <=> (Len(dtx.recipients) = 0 /\ Len(dtx.tx.output) >= 1)
              /\ last'.res = "Recipient must be 33 bytes"
                    <=> (/\ Len(dtx.recipients) > 0
                         /\ BytesLen(dtx.recipients[1]) # ADDRESS_LEN
                         /\ Len(dtx.tx.output) >= 1)]_vars

\* C26 as amended: only the first recipient of a Deposit is used; of the
\* deposits that reach the output loop (txid not processed, header cached,
\* proof root equal to the header's), exactly those with an empty recipients
\* list and at least one output fail with "Consumed all recipients", and
\* exactly those whose first recipient has not 33 bytes and that have at least
\* one output fail with "Recipient must be 33 bytes"; a deposit that does not
\* reach the output loop fails with the error of the earlier check.
C26_RecipientErrorsInOutputLoop ==
    [][last'.kind = "Deposit" =>
          LET dtx == last'.tx
              reaches == ReachesOutputLoop(St, dtx)
          IN  /\ FirstRecipientOnly(dtx, last'.res, accounts, accounts', utxos, utxos',
                                    signatory_sets, reaches)
              /\ last'.res = "Consumed all recipients"
                    <=> (reaches /\ Len(dtx.recipients) = 0 /\ Len(dtx.tx.output) >= 1)
              /\ last'.res = "Recipient must be 33 bytes"
                    <=> (/\ reaches
                         /\ Len(dtx.recipients) > 0
                         /\ BytesLen(dtx.recipients[1]) # ADDRESS_LEN
                         /\ Len(dtx.tx.output) >= 1)
              /\ ~reaches => last'.res \in {"Transaction was already processed",
                                            "Merkle root not found for deposit transaction",
                                            "Malformed partial merkle tree",
                                            "Proof merkle root does not match chain"}]_vars

\* a deposit with two matching outputs and two recipients has succeeded: both
\* outputs were credited to the first recipient, the second has no account
C26_Witness ==
    /\ last.kind = "Deposit"
    /\ last.res = "Ok"
    /\ Len(last.tx.recipients) = 2
    /\ Cardinality(MatchedOutputs(signatory_sets, last.tx)) = 2
    /\ last.tx.recipients[1] \in DOMAIN accounts
    /\ last.tx.recipients[2] \notin DOMAIN accounts

\* the snapshots (positions from 1) whose output script for the deposit's
\* first recipient is the script of the i-th output
MatchingSnapshots(history, dtx, i) ==
    {k \in 1..Len(history) :
        dtx.tx.output[i].script_pubkey
           = output_script(history[k].signatories, dtx.recipients[1])}

C28_ValidatorKeysValid ==
    /\ ~HasBadKey(validators)
    /\ ~(last.kind = "BeginBlock" /\ last.res = "Invalid public key")

\* the sum of the values of the pending withdrawals
RECURSIVE SumPending(_)
SumPending(q) == IF q = <<>> THEN 0 ELSE Head(q).value + SumPending(Tail(q))

\* what an accepted action adds to the sum of all balances according to the
\* supply accounting: a Deposit the values of its matched outputs, a Transfer
\* minus its fee, a Withdrawal minus its amount
SupplyChange(action, history) ==
    IF action.res # "Ok"
    THEN 0
    ELSE CASE action.kind = "Deposit" ->
                 SumValues(action.tx.tx.output, MatchedOutputs(history, action.tx))
           [] action.kind = "Transfer" -> 0 - action.tx.fee_amount
           [] action.kind = "Withdrawal" -> 0 - action.tx.amount
           [] OTHER -> 0

\* C29: the sum of all balances is the sum of the matched deposit values minus
\* the fees of the accepted Transfers minus the values of the entries of
\* pending_withdrawals. Step by step: every action that completes changes the
\* sum of all balances by exactly the matched values (Deposit), minus the fee
\* (Transfer), minus the amount (Withdrawal) or nothing, and the sum of the
\* pending withdrawals by the amount of an accepted Withdrawal; so no balance
\* exists that was not deposited.
C29_SupplyAccounting ==
    [][last'.res # "panic" =>
          /\ SumBalances(accounts')
                = SumBalances(accounts) + SupplyChange(last', signatory_sets)
          /\ SumPending(pending_withdrawals')
                = SumPending(pending_withdrawals)
                    + (IF last'.kind = "Withdrawal" /\ last'.res = "Ok"
                       THEN last'.tx.amount ELSE 0)]_vars

C31_PendingWithdrawalsLog ==
    [][pending_withdrawals' =
          IF last'.kind = "Withdrawal" /\ last'.res = "Ok"
          THEN pending_withdrawals
                  \o <<[value |-> last'.tx.amount, script |-> last'.tx.to]>>
          ELSE pending_withdrawals]_vars

\* a Withdrawal of amount 0 has been accepted after one of a positive amount:
\* the queue holds both, the earlier one at the front
C31_Witness ==
    /\ last.kind = "Withdrawal"
    /\ last.res = "Ok"
    /\ last.tx.amount = 0
    /\ Len(pending_withdrawals) = 2
    /\ pending_withdrawals[1].value > 0
    /\ pending_withdrawals[2].value = 0

====
